---- MODULE Spec2Model ----
(***************************************************************************)
(* ShipFlow: the directory sync engines (Upload Service uploader, Deploy   *)
(* Service uploader and downloader) and the Deploy Service orchestrator    *)
(* loop, modelled as state machines.                                       *)
(***************************************************************************)
EXTENDS Integers, Sequences, FiniteSets, TLC

\* ------------------------------------------------------------------ bounds
MaxFiles == 7       \* leaf files in the source tree
MaxDepth == 2       \* directory nesting depth of the source tree
MaxSize  == 2       \* largest file size (bytes)
MaxFailures == 1    \* transfers that fail during one sync call
SmallPage == 3      \* objects per listing page, when the listing is paginated
MaxJobs == 2        \* Job Identifiers on the build queue
MaxOrchFiles == 2   \* leaf files of a tree the orchestrator handles
TickMs == 2500      \* granularity of the clock (ms)
MaxOrchestrators == 2  \* orchestrator processes popping from one queue
MaxPushes == 3      \* Job Identifiers pushed while several processes pop
LogTickMs == 1000   \* granularity of Date.now() between progress reports (ms)
MaxLogClock == 9000 \* the clock of the progress reports stops here (ms)
MaxCompletions == 6 \* file completions reported to one statistics record

\* ------------------------------------------------------- program constants
concurrencyLimit == 5
logIntervalMs == 2000
retryDelayMs == 5000

FileIds == 1..MaxFiles
DirIds  == 1..MaxDepth
DirRoot == 1
Lanes   == 1..concurrencyLimit

VARIABLES
    tree,       \* readdir result of each directory: sequence of entries
    fsize,      \* size of each leaf file
    call,       \* the sync call being made: "none" before it
    \* Upload Service S3DirectoryUploader
    uInv,       \* state of the uploadDirectory invocation on each directory
    uLane,      \* the processEntry chains of each invocation
    uX,         \* state of uploadFile for each file
    uStats,     \* this.stats
    store,      \* the bucket: a set of objects [key, body]
    localOut,   \* the directory downloadFromS3 writes: a set of files [path, body]
    \* Deploy Service S3DirectoryUploader
    dPhase,     \* position of uploadDirectory
    dNext,      \* next leaf file processDirectory reaches, in traversal order
    uploadQueue,
    dX,         \* state of uploadFile for each file
    dStats,     \* this.stats
    \* Deploy Service S3DirectoryDownloader
    pageSize,   \* objects per page of listObjectsV2
    lPhase,     \* position of downloadFromS3
    lPage,      \* page the pending listObjectsV2 answers
    downloadPromises,
    lX,         \* state of downloadFile for each object
    lStats,     \* this.stats
    \* Deploy Service orchestrator (main, buildProject) and its Redis
    job,        \* the Job Identifier the sync call works for (res.element)
    queue,      \* the list 'build-queue'
    status,     \* the hash 'status': a set of [id, label]
    pc,         \* position of main
    timer,      \* ms left of the pending setTimeout
    iter,       \* how the iteration of main for job has gone so far, and the jobs
                \* whose iteration ended at the download step (as logged)
    orphans,    \* transfers still in flight of sync calls that have settled
    \* Upload Service Submission Handler (uploadController)
    sub,        \* its position, its response and the state of its lPush
    \* Several Deploy Service processes on one 'build-queue'
    pool,       \* per process: position of main, res.element, the ids it has popped
    \* The progress reports of one S3DirectoryUploader / S3DirectoryDownloader
    prog,       \* Date.now(), the times in this.stats, the reports logged
    \* Submissions and Deploy Service processes together, one step per sync call
    pipe        \* per submission: position of uploadController; per process: the
                \* step of its iteration; the sync calls that were rejected

usVars == <<uInv, uLane, uX, uStats>>
duVars == <<dPhase, dNext, uploadQueue, dX, dStats>>
dlVars == <<lPhase, lPage, downloadPromises, lX, lStats>>
inVars == <<tree, fsize, pageSize>>
orVars == <<queue, status, pc, timer, iter, orphans>>
vars   == <<tree, fsize, pageSize, call, job, store, localOut, usVars, duVars, dlVars, orVars, sub, pool, prog, pipe>>

\* ------------------------------------------------------------ source trees
RECURSIVE SumTo(_, _)
SumTo(ns, k) == IF k = 0 THEN 0 ELSE ns[k] + SumTo(ns, k - 1)

FileEntries(ns, d) ==
    [j \in 1..ns[d] |-> [isDir |-> FALSE, id |-> SumTo(ns, d - 1) + j]]

DirEntry(d) == <<[isDir |-> TRUE, id |-> d]>>

\* A chain of nested directories; level d holds ns[d] files and, unless it is
\* the deepest, one subdirectory listed first or last.
MkTree(ns, subFirst) ==
    [d \in DirIds |->
        IF d > Len(ns) THEN <<>>
        ELSE IF d = Len(ns) THEN FileEntries(ns, d)
        ELSE IF subFirst THEN DirEntry(d + 1) \o FileEntries(ns, d)
        ELSE FileEntries(ns, d) \o DirEntry(d + 1)]

\* Flat directories of every size; nested chains of MaxFiles files with all
\* but one file per level at the root, or at the deepest level.
TopHeavy(k)    == [d \in 1..k |-> IF d = 1 THEN MaxFiles - (k - 1) ELSE 1]
BottomHeavy(k) == [d \in 1..k |-> IF d = k THEN MaxFiles - (k - 1) ELSE 1]

Shapes ==
    {<<n>> : n \in 0..MaxFiles}
        \cup {TopHeavy(k) : k \in 2..MaxDepth} \cup {BottomHeavy(k) : k \in 2..MaxDepth}

Trees == {MkTree(ns, b) : ns \in Shapes, b \in BOOLEAN}

\* Sizes: the last file is empty, the others are not.
Sizes == {[f \in FileIds |-> IF f = MaxFiles THEN 0 ELSE 1 + (f % MaxSize)]}

RECURSIVE Flatten(_, _)
Flatten(t, es) ==
    IF es = <<>> THEN <<>>
    ELSE LET e == Head(es)
         IN  (IF e.isDir THEN Flatten(t, t[e.id]) ELSE <<e.id>>) \o Flatten(t, Tail(es))

Range(s) == {s[i] : i \in 1..Len(s)}

RECURSIVE SumSizes(_, _)
SumSizes(sz, s) == IF s = <<>> THEN 0 ELSE sz[Head(s)] + SumSizes(sz, Tail(s))

TreeFiles == Range(Flatten(tree, tree[DirRoot]))

ZeroStats == [totalFiles |-> 0, filesUploaded |-> 0, totalBytes |-> 0, bytesUploaded |-> 0]

\* ------------------------------------------------- paths, keys and objects
\* A path or key is a sequence of tokens: names and the separator.
Slash       == <<"/">>
FileName(f) == <<"f", f>>
DirName(d)  == <<"d", d>>
JobId(j)    == <<"job", j>>
DeploymentId == <<"deployment">>

ParentOf(d) == CHOOSE p \in DirIds : \E k \in 1..Len(tree[p]) : tree[p][k].isDir /\ tree[p][k].id = d

DirOf(f) == CHOOSE d \in DirIds : \E k \in 1..Len(tree[d]) : ~tree[d][k].isDir /\ tree[d][k].id = f

\* The bytes of file f: fsize[f] bytes that differ from every other file's.
Bytes(f) == [i \in 1..fsize[f] |-> f]

\* path.join(a, name)
pathJoin(a, name) == IF a = <<>> THEN <<name>> ELSE a \o <<Slash, name>>

\* The path of directory d and of file f relative to the synced root.
RECURSIVE RelDir(_)
RelDir(d) == IF d = DirRoot THEN <<>> ELSE pathJoin(RelDir(ParentOf(d)), DirName(d))

RelPath(f) == pathJoin(RelDir(DirOf(f)), FileName(f))

\* The local tree being uploaded.
LocalTree == {[path |-> RelPath(f), body |-> Bytes(f)] : f \in TreeFiles}

StartsWith(k, pre) == Len(k) >= Len(pre) /\ SubSeq(k, 1, Len(pre)) = pre

\* The files below `output/${id}` written by downloads, by relative path.
OutputDir(id) ==
    {[path |-> SubSeq(o.path, 3, Len(o.path)), body |-> o.body] :
        o \in {x \in localOut : StartsWith(x.path, <<id, Slash>>)}}

\* PutObject / fs.createWriteStream: the last write of a name wins.
Put(S, k, b) == {o \in S : o.key # k} \cup {[key |-> k, body |-> b]}
WriteFile(S, p, b) == {o \in S : o.path # p} \cup {[path |-> p, body |-> b]}

\* The id of the file an object was uploaded from: the number in its name.
ObjId(k) == k[Len(k)][2]

\* ------------------------------------------ Upload Service: uploadDirectory
\* One turn of the event loop is one action: the I/O completion and every
\* promise reaction that follows it before the next I/O completion.
IdleLane == [idx |-> 0, st |-> "idle", failed |-> FALSE]

\* The uploader's state as one record, for the operators below.
US == [inv |-> uInv, lane |-> uLane, X |-> uX, stats |-> uStats]

SetUS(S) ==
    /\ uInv' = S.inv
    /\ uLane' = S.lane
    /\ uX' = S.X
    /\ uStats' = S.stats

\* calculateDirectoryStats(dirPath): counts the leaf files below d.
calculateDirectoryStats(st, d) ==
    LET fs == Flatten(tree, tree[d])
    IN  [st EXCEPT !.totalFiles = @ + Len(fs), !.totalBytes = @ + SumSizes(fsize, fs)]

entryS3KeyFlat(s3Prefix, name) == IF s3Prefix # <<>> THEN <<s3Prefix[1], Slash, name>> ELSE <<name>>

\* entryS3Key = s3Prefix ? `${s3Prefix}/${entry.name}` : entry.name
entryS3Key(s3Prefix, name) == IF s3Prefix # <<>> THEN s3Prefix \o <<Slash, name>> ELSE <<name>>

\* The s3Prefix argument of the uploadDirectory invocation on d, the top-level
\* call being uploadDirectory(absolutePath, id).
RECURSIVE s3PrefixOf(_, _)
s3PrefixOf(id, d) ==
    IF d = DirRoot THEN <<id>> ELSE entryS3Key(s3PrefixOf(id, ParentOf(d)), DirName(d))

\* processEntry(k) of the invocation on d, run by chain i up to its first
\* await; failed: an earlier entry of the chain has thrown.
processEntry(S, d, i, k, failed) ==
    IF k > Len(tree[d])
    THEN [S EXCEPT !.lane[d][i] =
            [idx |-> k, st |-> IF failed THEN "err" ELSE "ok", failed |-> failed]]
    ELSE LET e == tree[d][k]
         IN  IF e.isDir
             THEN \* this.uploadDirectory(entryPath, entryS3Key): resets this.stats
                  [S EXCEPT !.lane[d][i] = [idx |-> k, st |-> "dir", failed |-> failed],
                            !.inv[e.id] = "stats",
                            !.stats = ZeroStats]
             ELSE [S EXCEPT !.lane[d][i] = [idx |-> k, st |-> "file", failed |-> failed],
                            !.X[e.id] = "inflight"]

\* await Promise.all(initialPromises) of the invocation on d: rejects with the
\* first rejected chain, resolves when every chain has resolved; the chain of
\* the parent invocation awaiting it then runs its finally block:
\* processEntry(index + concurrencyLimit).
RECURSIVE uploadDirectorySettled(_, _, _)
RECURSIVE uploadDirectoryJoin(_, _)
uploadDirectorySettled(S, d, r) ==
    LET S1 == [S EXCEPT !.inv[d] = r]
    IN  IF d = DirRoot THEN S1
        ELSE LET p == ParentOf(d)
                 i == CHOOSE j \in Lanes :
                        /\ S1.lane[p][j].st = "dir"
                        /\ tree[p][S1.lane[p][j].idx].id = d
                 S2 == processEntry(S1, p, i, S1.lane[p][i].idx + concurrencyLimit,
                                    S1.lane[p][i].failed \/ r = "err")
             IN  uploadDirectoryJoin(S2, p)

uploadDirectoryJoinAny(S, d) ==
    IF S.inv[d] # "run" THEN S
    ELSE IF \E i \in Lanes : S.lane[d][i].st = "err" THEN uploadDirectorySettled(S, d, "err")
    ELSE IF \E i \in Lanes : S.lane[d][i].st \in {"idle", "ok"} THEN uploadDirectorySettled(S, d, "ok")
    ELSE S

uploadDirectoryJoin(S, d) ==
    IF S.inv[d] # "run" THEN S
    ELSE IF \E i \in Lanes : S.lane[d][i].st = "err" THEN uploadDirectorySettled(S, d, "err")
    ELSE IF \A i \in Lanes : S.lane[d][i].st \in {"idle", "ok"} THEN uploadDirectorySettled(S, d, "ok")
    ELSE S

RECURSIVE initialPromisesShort(_, _, _)
initialPromisesShort(S, d, i) ==
    IF i > concurrencyLimit - 1 \/ i > Len(tree[d]) THEN S
    ELSE initialPromisesShort(processEntry(S, d, i, i, FALSE), d, i + 1)

\* The initial batch: processEntry(i) for i < min(concurrencyLimit, entries.length).
RECURSIVE initialPromises(_, _, _)
initialPromises(S, d, i) ==
    IF i > concurrencyLimit \/ i > Len(tree[d]) THEN S
    ELSE initialPromises(processEntry(S, d, i, i, FALSE), d, i + 1)

\* The caller invokes uploadDirectory(root): stats reset, statistics pass begun.
UStart ==
    /\ uInv' = [uInv EXCEPT ![DirRoot] = "stats"]
    /\ uStats' = ZeroStats
    /\ UNCHANGED <<uLane, uX, store, localOut>>

\* The statistics pass and the readdir of the invocation on d end; the initial
\* batch of chains starts.
UStatsDone(d) ==
    /\ uInv[d] = "stats"
    /\ LET S1 == [US EXCEPT !.inv[d] = "run", !.stats = calculateDirectoryStats(uStats, d)]
       IN  SetUS(uploadDirectoryJoin(initialPromises(S1, d, 1), d))
    /\ UNCHANGED <<store, localOut>>

\* readdir or stat fails during the statistics pass of the invocation on d.
UStatsFail(d) ==
    /\ uInv[d] = "stats"
    /\ SetUS(uploadDirectorySettled(US, d, "err"))
    /\ UNCHANGED <<store, localOut>>

\* uploadFile settles for the file chain i of d is awaiting; finally: the
\* chain goes on to processEntry(index + concurrencyLimit).
UFileSettle(d, i, ok) ==
    /\ uLane[d][i].st = "file"
    /\ ok \/ Cardinality({g \in FileIds : uX[g] = "fail"}) < MaxFailures
    /\ LET f == tree[d][uLane[d][i].idx].id
           S1 == [US EXCEPT !.X[f] = IF ok THEN "ok" ELSE "fail",
                            !.stats = IF ok
                                      THEN [@ EXCEPT !.filesUploaded = @ + 1,
                                                     !.bytesUploaded = @ + fsize[f]]
                                      ELSE @]
           S2 == processEntry(S1, d, i, uLane[d][i].idx + concurrencyLimit,
                              uLane[d][i].failed \/ ~ok)
       IN  /\ SetUS(uploadDirectoryJoin(S2, d))
           /\ store' = IF ok
                       THEN Put(store, entryS3Key(s3PrefixOf(job, d), FileName(f)), Bytes(f))
                       ELSE store
    /\ UNCHANGED localOut

UploadSvcNext ==
    \/ \E d \in DirIds : UStatsDone(d)
    \/ \E d \in DirIds : UStatsFail(d)
    \/ \E d \in DirIds, i \in Lanes, ok \in BOOLEAN : UFileSettle(d, i, ok)

UploadSvcInit ==
    /\ uInv = [d \in DirIds |-> "none"]
    /\ uLane = [d \in DirIds |-> [i \in Lanes |-> IdleLane]]
    /\ uX = [f \in FileIds |-> "none"]
    /\ uStats = ZeroStats

\* ------------------------------------------ Deploy Service: uploadDirectory
\* The leaf files in the order processDirectory reaches them.
Files == Flatten(tree, tree[DirRoot])

DU == [phase |-> dPhase, next |-> dNext, queue |-> uploadQueue, X |-> dX, stats |-> dStats]

SetDU(S) ==
    /\ dPhase' = S.phase
    /\ dNext' = S.next
    /\ uploadQueue' = S.queue
    /\ dX' = S.X
    /\ dStats' = S.stats

\* uploadDistFolder: s3Prefix = `deployments/${id}/${deploymentId}`
distPrefix == <<<<"deployments">>, Slash, job, Slash, DeploymentId>>

\* s3Key = path.posix.join(s3Prefix, entryRelPath)
s3Key(s3Prefix, f) == IF s3Prefix # <<>> THEN s3Prefix \o <<Slash>> \o RelPath(f) ELSE RelPath(f)

\* calculateLocalStats(localDir)
calculateLocalStats(st) ==
    [st EXCEPT !.totalFiles = @ + Len(Files), !.totalBytes = @ + SumSizes(fsize, Files)]

Min(S) == CHOOSE x \in S : \A y \in S : x <= y

Splice(q, k) == SubSeq(q, 1, k - 1) \o SubSeq(q, k + 1, Len(q))

\* Indices of the settled promises of the queue.
SettledIn(X, q) == {k \in 1..Len(q) : X[q[k]] \in {"ok", "fail"}}

\* "Manage concurrency": with a full queue, wait for one promise to settle;
\* the second race yields the index of the first settled promise of the queue,
\* or -1 when that one rejected, and only an index other than -1 is spliced.
manageConcurrency(X, q) ==
    IF Len(q) >= concurrencyLimit
    THEN LET completedIndex == Min(SettledIn(X, q))
         IN  IF X[q[completedIndex]] = "ok" THEN Splice(q, completedIndex) ELSE q
    ELSE q

\* processDirectory from the file it has reached, until it must wait for an
\* upload to settle or has pushed an upload for every file.
RECURSIVE processDirectory(_)
processDirectory(S) ==
    IF S.next > Len(Files) THEN [S EXCEPT !.phase = "join"]
    ELSE IF Len(S.queue) >= concurrencyLimit /\ SettledIn(S.X, S.queue) = {}
    THEN [S EXCEPT !.phase = "walk"]
    ELSE LET f == Files[S.next]
         IN  processDirectory([S EXCEPT !.queue = Append(manageConcurrency(S.X, S.queue), f),
                                        !.X[f] = "inflight",
                                        !.next = @ + 1])

awaitUploadQueueSettled(S) ==
    IF S.phase # "join" THEN S
    ELSE IF \A k \in 1..Len(S.queue) : S.X[S.queue[k]] \in {"ok", "fail"}
    THEN [S EXCEPT !.phase = "ok"]
    ELSE S

\* if (uploadQueue.length > 0) await Promise.all(uploadQueue)
awaitUploadQueue(S) ==
    IF S.phase # "join" THEN S
    ELSE IF \E k \in 1..Len(S.queue) : S.X[S.queue[k]] = "fail" THEN [S EXCEPT !.phase = "err"]
    ELSE IF \A k \in 1..Len(S.queue) : S.X[S.queue[k]] = "ok" THEN [S EXCEPT !.phase = "ok"]
    ELSE S

\* uploadDirectory(localDir, s3Prefix) up to its first wait.
deployUploadDirectory(S) ==
    awaitUploadQueue(processDirectory(
        [S EXCEPT !.stats = calculateLocalStats(ZeroStats), !.next = 1, !.queue = <<>>]))

DStart ==
    /\ SetDU(deployUploadDirectory([DU EXCEPT !.X = [f \in FileIds |-> "none"]]))
    /\ UNCHANGED <<store, localOut>>

\* readdirSync or statSync throws in calculateLocalStats.
DStartFail ==
    /\ dPhase' = "err"
    /\ UNCHANGED <<dNext, uploadQueue, dX, dStats, store, localOut>>

uploadFileSettledCounted(S, f, ok) ==
    LET S1 == [S EXCEPT !.X[f] = IF ok THEN "ok" ELSE "fail",
                        !.stats = [@ EXCEPT !.filesUploaded = @ + 1,
                                            !.bytesUploaded = @ + fsize[f]]]
    IN  awaitUploadQueue(IF S1.phase = "walk" THEN processDirectory(S1) ELSE S1)

\* s3Client.upload settles for f; a waiting processDirectory goes on; a
\* waiting Promise.all(uploadQueue) reacts.
uploadFileSettled(S, f, ok) ==
    LET S1 == [S EXCEPT !.X[f] = IF ok THEN "ok" ELSE "fail",
                        !.stats = IF ok
                                  THEN [@ EXCEPT !.filesUploaded = @ + 1,
                                                 !.bytesUploaded = @ + fsize[f]]
                                  ELSE @]
    IN  awaitUploadQueue(IF S1.phase = "walk" THEN processDirectory(S1) ELSE S1)

DSettle(f, ok) ==
    /\ dX[f] = "inflight"
    /\ ok \/ Cardinality({g \in FileIds : dX[g] = "fail"}) < MaxFailures
    /\ SetDU(uploadFileSettled(DU, f, ok))
    /\ store' = IF ok THEN Put(store, s3Key(distPrefix, f), Bytes(f)) ELSE store
    /\ UNCHANGED localOut

DeployUpNext ==
    \/ \E f \in FileIds, ok \in BOOLEAN : DSettle(f, ok)

DeployUpInit ==
    /\ dPhase = "idle"
    /\ dNext = 1
    /\ uploadQueue = <<>>
    /\ dX = [f \in FileIds |-> "none"]
    /\ dStats = ZeroStats

\* ------------------------------------------- Deploy Service: downloadFromS3
ZeroDownloadStats ==
    [totalFiles |-> 0, filesDownloaded |-> 0, totalBytes |-> 0, bytesDownloaded |-> 0]

\* listObjectsV2({Prefix}): the keys under the prefix in the bucket's key
\* order ("d..." before "f...", then by number), named by their file ids.
Listed(pre) == {o \in store : StartsWith(o.key, pre)}

KeyRank(k) == (MaxDepth + 1 - Cardinality({i \in 1..Len(k) : k[i] = Slash})) * (MaxFiles + 1) + ObjId(k)

RECURSIVE SortByRank(_)
SortByRank(S) ==
    IF S = {} THEN <<>>
    ELSE LET o == CHOOSE x \in S : \A y \in S : KeyRank(x.key) <= KeyRank(y.key)
         IN  <<ObjId(o.key)>> \o SortByRank(S \ {o})

\* downloadS3Folder(id): downloadFromS3(id, `output/${id}`)
downloadPrefix == <<job>>

Objects == SortByRank(Listed(downloadPrefix))

ObjectOf(f) == CHOOSE o \in Listed(downloadPrefix) : ObjId(o.key) = f

NumPages == IF Len(Objects) = 0 THEN 1 ELSE (Len(Objects) + pageSize - 1) \div pageSize

Contents(k) ==
    SubSeq(Objects, (k - 1) * pageSize + 1,
           IF k * pageSize < Len(Objects) THEN k * pageSize ELSE Len(Objects))

IsTruncatedNever(k) == FALSE

IsTruncated(k) == k < NumPages

DL == [phase |-> lPhase, page |-> lPage, promises |-> downloadPromises, X |-> lX, stats |-> lStats]

SetDL(S) ==
    /\ lPhase' = S.phase
    /\ lPage' = S.page
    /\ downloadPromises' = S.promises
    /\ lX' = S.X
    /\ lStats' = S.stats

\* if (obj.Key && obj.Size && obj.Size > 0)
IsFileObject(f) == Len(ObjectOf(f).body) > 0

\* relativePath = obj.Key.slice(s3Prefix.length), less a leading slash
cleanRelativePath(k, s3Prefix) ==
    LET relativePath == SubSeq(k, Len(s3Prefix) + 1, Len(k))
    IN  IF relativePath # <<>> /\ Head(relativePath) = Slash THEN Tail(relativePath)
        ELSE relativePath

\* path.join(localDir, cleanRelativePath), localDir being `output/${id}`
localFilePath(id, rel) == <<id, Slash>> \o rel

ObjSize(f) == Len(ObjectOf(f).body)

\* The batches pushed to downloadPromises for one page: every concurrencyLimit
\* downloads, and the rest of the page.
RECURSIVE Batches(_)
Batches(os) ==
    IF os = <<>> THEN <<>>
    ELSE IF Len(os) <= concurrencyLimit THEN <<os>>
    ELSE <<SubSeq(os, 1, concurrencyLimit)>> \o Batches(SubSeq(os, concurrencyLimit + 1, Len(os)))

awaitDownloadPromisesNot(S) ==
    IF S.phase # "join" THEN S ELSE [S EXCEPT !.phase = "ok"]

\* await Promise.all(downloadPromises)
awaitDownloadPromises(S) ==
    LET started == UNION {Range(S.promises[b]) : b \in 1..Len(S.promises)}
    IN  IF S.phase # "join" THEN S
        ELSE IF \E f \in started : S.X[f] = "fail" THEN [S EXCEPT !.phase = "err"]
        ELSE IF \A f \in started : S.X[f] = "ok" THEN [S EXCEPT !.phase = "ok"]
        ELSE S

\* The body of the transfer loop for page k: downloadFile is called for every
\* file object of the page.
transferPage(S, k) ==
    LET os == SelectSeq(Contents(k), IsFileObject)
        S1 == [S EXCEPT !.X = [f \in FileIds |-> IF f \in Range(os) THEN "inflight" ELSE @[f]],
                        !.promises = @ \o Batches(os)]
    IN  IF IsTruncated(k) THEN [S1 EXCEPT !.page = k + 1]
        ELSE awaitDownloadPromises([S1 EXCEPT !.phase = "join"])

\* The process ends: an uncaught exception or, on runtimes that throw on them,
\* an unhandled rejection.
processExit(S) ==
    [S EXCEPT !.phase = "crashed",
              !.X = [f \in FileIds |-> IF @[f] = "inflight" THEN "aborted" ELSE @[f]]]

\* downloadFromS3(s3Prefix, localDir): stats reset, statistics pass begun.
LStart ==
    /\ lPhase' = "stats"
    /\ lPage' = 1
    /\ lStats' = ZeroDownloadStats
    /\ downloadPromises' = <<>>
    /\ lX' = [f \in FileIds |-> "none"]
    /\ UNCHANGED <<store, localOut>>

\* calculateS3Stats: one page of the listing is counted.
LStatsPage ==
    /\ lPhase = "stats"
    /\ LET os == SelectSeq(Contents(lPage), IsFileObject)
       IN  lStats' = [lStats EXCEPT !.totalFiles = @ + Len(os),
                                    !.totalBytes = @ + SumSizes([f \in FileIds |-> IF f \in Range(os) THEN ObjSize(f) ELSE 0], os)]
    /\ IF IsTruncated(lPage)
       THEN lPage' = lPage + 1 /\ lPhase' = lPhase
       ELSE lPage' = 1 /\ lPhase' = "list"
    /\ UNCHANGED <<downloadPromises, lX, store, localOut>>

\* listObjectsV2 rejects, in the statistics pass or in the transfer loop.
LListFail ==
    /\ lPhase \in {"stats", "list"}
    /\ lPhase' = "err"
    /\ UNCHANGED <<lPage, downloadPromises, lX, lStats, store, localOut>>

\* listObjectsV2 answers in the transfer loop.
LPage ==
    /\ lPhase = "list"
    /\ SetDL(transferPage(DL, lPage))
    /\ UNCHANGED <<store, localOut>>

\* downloadFile settles for f: 'finish', or a rejection (headObject, mkdir,
\* write stream). A rejection before Promise.all(downloadPromises) is reached
\* finds no handler on the batch promise.
downloadFileSettled(S, f, ok) ==
    awaitDownloadPromises(
        [S EXCEPT !.X[f] = IF ok THEN "ok" ELSE "fail",
                  !.stats = IF ok
                            THEN [@ EXCEPT !.filesDownloaded = @ + 1,
                                           !.bytesDownloaded = @ + ObjSize(f)]
                            ELSE @])

LSettle(f, ok) ==
    /\ lX[f] = "inflight"
    /\ ok \/ Cardinality({g \in FileIds : lX[g] = "fail"}) < MaxFailures
    /\ \/ SetDL(downloadFileSettled(DL, f, ok))
       \/ /\ ~ok
          /\ lPhase = "list"
          /\ SetDL(processExit(downloadFileSettled(DL, f, ok)))
    /\ localOut' = IF ok
                   THEN WriteFile(localOut,
                                  localFilePath(job, cleanRelativePath(ObjectOf(f).key, downloadPrefix)),
                                  ObjectOf(f).body)
                   ELSE localOut
    /\ UNCHANGED store

\* The read stream of getObject emits 'error': only the write stream has an
\* 'error' listener.
LStreamError(f) ==
    /\ lX[f] = "inflight"
    /\ SetDL(processExit(DL))
    /\ UNCHANGED <<store, localOut>>

DownloadNext ==
    \/ LStatsPage
    \/ LListFail
    \/ LPage
    \/ \E f \in FileIds, ok \in BOOLEAN : LSettle(f, ok)
    \/ \E f \in FileIds : LStreamError(f)

DownloadInit ==
    /\ lPhase = "idle"
    /\ lPage = 1
    /\ downloadPromises = <<>>
    /\ lX = [f \in FileIds |-> "none"]
    /\ lStats = ZeroDownloadStats

\* ------------------------------------------------------------ specification
\* One sync call of an uploader on a source tree; after a successful upload
\* by the Upload Service, one download of what it uploaded.
SubOff == sub = [pc |-> "off", res |-> <<>>, push |-> "none"]

Orchestrators == 1..MaxOrchestrators

PipeOff ==
    pipe = [up |-> [j \in 1..MaxPushes |-> "none"],
            stage |-> [o \in Orchestrators |-> "download"],
            rejected |-> {}]

ProgOff ==
    prog = [now |-> 0, startTime |-> 0, lastLogTime |-> 0, filesDone |-> 0,
            lastReset |-> -1, logged |-> <<>>]

PoolOff == pool = [o \in Orchestrators |-> [pc |-> "off", job |-> <<>>, popped |-> {}]]

OrchOff ==
    /\ queue = <<>>
    /\ status = {}
    /\ pc = "off"
    /\ timer = 0
    /\ iter = [job |-> <<>>, result |-> "none", downloadFailed |-> {}]
    /\ orphans = {}

Init ==
    /\ tree \in Trees
    /\ fsize \in Sizes
    /\ pageSize \in {SmallPage, MaxFiles}
    /\ call = "none"
    /\ job = JobId(1)
    /\ store = {}
    /\ localOut = {}
    /\ UploadSvcInit
    /\ DeployUpInit
    /\ DownloadInit
    /\ OrchOff
    /\ SubOff
    /\ PoolOff
    /\ ProgOff
    /\ PipeOff

CallUploadSvc ==
    /\ call = "none"
    /\ call' = "uploadSvc"
    /\ UStart
    /\ UNCHANGED <<inVars, pool, prog, pipe, sub, job, duVars, dlVars, orVars>>

StepUploadSvc ==
    /\ call = "uploadSvc"
    /\ UploadSvcNext
    /\ UNCHANGED <<inVars, pool, prog, pipe, sub, call, job, duVars, dlVars, orVars>>

CallDeployUp ==
    /\ call = "none"
    /\ call' = "deployUp"
    /\ DStart \/ DStartFail
    /\ UNCHANGED <<inVars, pool, prog, pipe, sub, job, usVars, dlVars, orVars>>

StepDeployUp ==
    /\ call = "deployUp"
    /\ DeployUpNext
    /\ UNCHANGED <<inVars, pool, prog, pipe, sub, call, job, usVars, dlVars, orVars>>

\* The uploader instance of the finished call is gone.
CallDownload ==
    /\ call = "uploadSvc"
    /\ uInv[DirRoot] = "ok"
    /\ call' = "download"
    /\ LStart
    /\ uInv' = [d \in DirIds |-> "none"]
    /\ uLane' = [d \in DirIds |-> [i \in Lanes |-> IdleLane]]
    /\ uX' = [f \in FileIds |-> "none"]
    /\ uStats' = ZeroStats
    /\ UNCHANGED <<inVars, pool, prog, pipe, sub, job, duVars, orVars>>

StepDownload ==
    /\ call = "download"
    /\ DownloadNext
    /\ UNCHANGED <<inVars, pool, prog, pipe, sub, call, job, usVars, duVars, orVars>>

Next ==
    \/ CallUploadSvc
    \/ StepUploadSvc
    \/ CallDeployUp
    \/ StepDeployUp
    \/ CallDownload
    \/ StepDownload

Spec == Init /\ [][Next]_vars

\* --------------------------------------- Deploy Service: main, buildProject
\* The build queue after n submissions: lPush adds at the head.
RECURSIVE Pushed(_)
Pushed(n) == IF n = 0 THEN <<>> ELSE <<JobId(n)>> \o Pushed(n - 1)

\* What a successful submit of the tree leaves under the prefix id.
SourceObjects(id) ==
    {[key |-> entryS3Key(s3PrefixOf(id, DirOf(f)), FileName(f)), body |-> Bytes(f)] :
        f \in TreeFiles}

hSetNothing(S, id, label) == S

hSetBuilding(S, id, label) ==
    {r \in S : r.id # id} \cup {[id |-> id, label |-> "building"], [id |-> id, label |-> label]}

hSetEveryJob(S, id, label) == {[id |-> JobId(j), label |-> label] : j \in 1..MaxJobs}

\* publisher.hSet("status", id, label)
hSet(S, id, label) == {r \in S : r.id # id} \cup {[id |-> id, label |-> label]}

\* The transfers a settled sync call has left in flight.
LeftBy(X, id, kind) == {[kind |-> kind, job |-> id, file |-> f] : f \in {g \in FileIds : X[g] = "inflight"}}

\* catch (error): log, then await setTimeout(resolve, 5000)
catchAndSleep(result) ==
    /\ pc' = "sleep"
    /\ timer' = retryDelayMs
    /\ iter' = [iter EXCEPT !.result = result,
                             !.downloadFailed = IF result = "downloadFailed" THEN @ \cup {job} ELSE @]

\* main after `await downloadS3Folder(res.element)` settles: buildProject
\* starts the build subprocess, or the catch block runs.
afterDownload ==
    IF pc # "download" THEN UNCHANGED <<pc, timer, iter>>
    ELSE IF lPhase' = "ok"
    THEN pc' = "build" /\ iter' = [iter EXCEPT !.result = "building"] /\ UNCHANGED timer
    ELSE IF lPhase' = "err" THEN catchAndSleep("downloadFailed")
    ELSE UNCHANGED <<pc, timer, iter>>

\* main after uploadDistFolder settles: resolve(""), and the loop is back at
\* brPop; or reject(error), and the catch block runs.
afterPublish ==
    IF pc # "publish" THEN UNCHANGED <<pc, timer, iter>>
    ELSE IF dPhase' = "ok"
    THEN pc' = "pop" /\ iter' = [iter EXCEPT !.result = "complete"] /\ UNCHANGED timer
    ELSE IF dPhase' = "err" THEN catchAndSleep("publishFailed")
    ELSE UNCHANGED <<pc, timer, iter>>

\* brPop returns the element at the tail of 'build-queue'; downloadS3Folder
\* makes a new S3DirectoryDownloader and calls downloadFromS3.
OPop ==
    /\ pc = "pop"
    /\ queue # <<>>
    /\ job' = queue[Len(queue)]
    /\ queue' = SubSeq(queue, 1, Len(queue) - 1)
    /\ iter' = [iter EXCEPT !.job = job', !.result = "downloading"]
    /\ pc' = "download"
    /\ call' = "download"
    /\ LStart
    \* the downloader and the uploader of the iteration before are gone; what
    \* they left in flight goes on
    /\ orphans' = orphans \cup LeftBy(lX, job, "download") \cup LeftBy(dX, job, "upload")
    /\ dPhase' = "idle"
    /\ dNext' = 1
    /\ uploadQueue' = <<>>
    /\ dX' = [f \in FileIds |-> "none"]
    /\ dStats' = ZeroStats
    /\ UNCHANGED <<inVars, pool, prog, pipe, sub, status, timer, usVars>>

\* brPop rejects.
OPopFail ==
    /\ pc = "pop"
    /\ pc' = "sleep"
    /\ timer' = retryDelayMs
    /\ iter' = [iter EXCEPT !.job = <<>>, !.result = "popFailed"]
    /\ UNCHANGED <<inVars, pool, prog, pipe, sub, call, job, store, localOut, queue, status, orphans, usVars, duVars, dlVars>>

\* A turn of the downloader, and main's continuation when the call settles.
ODownload ==
    /\ pc \notin {"off", "crashed"}
    /\ call = "download"
    /\ DownloadNext
    /\ IF lPhase' = "crashed"
       THEN pc' = "crashed" /\ UNCHANGED <<timer, iter>>
       ELSE afterDownload
    /\ UNCHANGED <<inVars, pool, prog, pipe, sub, call, job, queue, status, orphans, usVars, duVars>>

\* child.on('close'): the build subprocess has exited with code 0 or not, and
\* has made the dist folder or not.
OBuildClose(codeZero, distExists) ==
    /\ pc = "build"
    /\ IF codeZero
       THEN /\ status' = hSet(status, job, "Deployed")
            /\ IF distExists
               THEN \* uploadDistFolder(id, deploymentId): a new S3DirectoryUploader
                    /\ call' = "deployUp"
                    /\ DStart \/ DStartFail
                    /\ UNCHANGED orphans
                    /\ IF dPhase' = "ok"
                       THEN pc' = "pop" /\ iter' = [iter EXCEPT !.result = "complete"]
                                        /\ UNCHANGED timer
                       ELSE IF dPhase' = "err" THEN catchAndSleep("publishFailed")
                       ELSE pc' = "publish" /\ iter' = [iter EXCEPT !.result = "publishing"]
                                            /\ UNCHANGED timer
               ELSE /\ catchAndSleep("noDist")
                    /\ UNCHANGED <<call, duVars, store, localOut, orphans>>
       ELSE /\ catchAndSleep("buildFailed")
            /\ UNCHANGED <<call, status, duVars, store, localOut, orphans>>
    /\ UNCHANGED <<inVars, pool, prog, pipe, sub, job, queue, usVars, dlVars>>

\* A turn of the uploader publishing dist, and main's continuation when the
\* call settles.
OPublish ==
    /\ pc \notin {"off", "crashed"}
    /\ call = "deployUp"
    /\ DeployUpNext
    /\ afterPublish
    /\ UNCHANGED <<inVars, pool, prog, pipe, sub, call, job, queue, status, orphans, usVars, dlVars>>

\* Time passes while the setTimeout of the catch block is pending.
OTick ==
    /\ pc = "sleep"
    /\ timer > 0
    /\ timer' = IF timer > TickMs THEN timer - TickMs ELSE 0
    /\ UNCHANGED <<inVars, pool, prog, pipe, sub, call, job, store, localOut, queue, status, pc, iter, orphans,
                   usVars, duVars, dlVars>>

OTimerEarly ==
    /\ pc = "sleep"
    /\ pc' = "pop"
    /\ UNCHANGED <<inVars, pool, prog, pipe, sub, call, job, store, localOut, queue, status, timer, iter, orphans,
                   usVars, duVars, dlVars>>

\* The setTimeout fires: the loop is back at brPop.
OTimer ==
    /\ pc = "sleep"
    /\ timer = 0
    /\ pc' = "pop"
    /\ UNCHANGED <<inVars, pool, prog, pipe, sub, call, job, store, localOut, queue, status, timer, iter, orphans,
                   usVars, duVars, dlVars>>

\* A transfer left in flight by an earlier sync call settles.
OOrphan(o, ok) ==
    /\ pc \notin {"off", "crashed"}
    /\ o \in orphans
    /\ orphans' = orphans \ {o}
    /\ IF ok /\ o.kind = "upload"
       THEN store' = Put(store,
                         <<<<"deployments">>, Slash, o.job, Slash, DeploymentId, Slash>> \o RelPath(o.file),
                         Bytes(o.file))
       ELSE store' = store
    /\ IF ok /\ o.kind = "download"
       THEN localOut' = WriteFile(localOut, localFilePath(o.job, RelPath(o.file)), Bytes(o.file))
       ELSE localOut' = localOut
    /\ UNCHANGED <<inVars, pool, prog, pipe, sub, call, job, queue, status, pc, timer, iter, usVars, duVars, dlVars>>

\* The S3 read stream of a download left in flight emits 'error': it has no
\* listener, so the process ends with an uncaught exception.
OOrphanStreamError(o) ==
    /\ pc \notin {"off", "crashed"}
    /\ o \in orphans
    /\ o.kind = "download"
    /\ pc' = "crashed"
    /\ UNCHANGED <<inVars, pool, prog, pipe, sub, call, job, store, localOut, queue, status, timer, iter, orphans,
                   usVars, duVars, dlVars>>

OrchInit ==
    /\ tree \in {MkTree(<<n>>, TRUE) : n \in 0..MaxOrchFiles}
    /\ fsize \in Sizes
    /\ pageSize = SmallPage
    /\ call = "none"
    /\ job = <<>>
    /\ queue \in {Pushed(n) : n \in 0..MaxJobs}
    /\ store = UNION {SourceObjects(queue[k]) : k \in 1..Len(queue)}
    /\ localOut = {}
    /\ status = {}
    /\ pc = "pop"
    /\ timer = 0
    /\ iter = [job |-> <<>>, result |-> "none", downloadFailed |-> {}]
    /\ orphans = {}
    /\ SubOff
    /\ PoolOff
    /\ ProgOff
    /\ PipeOff
    /\ UploadSvcInit
    /\ DeployUpInit
    /\ DownloadInit

OrchNext ==
    \/ OPop
    \/ OPopFail
    \/ ODownload
    \/ \E codeZero \in BOOLEAN, distExists \in BOOLEAN : OBuildClose(codeZero, distExists)
    \/ OPublish
    \/ OTick
    \/ OTimer
    \/ \E o \in orphans, ok \in BOOLEAN : OOrphan(o, ok)
    \/ \E o \in orphans : OOrphanStreamError(o)

SpecOrch == OrchInit /\ [][OrchNext]_vars

\* The timer runs and fires.
FairSpecOrch == SpecOrch /\ WF_vars(OTick) /\ WF_vars(OTimer)

\* ------------------------------------- Upload Service: uploadController
\* const id = uuidv4(); simpleGit().clone(repoUrl, outputDir) begins.
SubmitStart ==
    /\ sub.pc = "idle"
    /\ sub' = [sub EXCEPT !.pc = "clone"]
    /\ UNCHANGED <<inVars, pool, prog, pipe, call, job, store, localOut, usVars, duVars, dlVars, orVars>>

\* The clone ends. Cloned: s3Uploader.uploadDirectory(absolutePath, id)
\* begins. Failed: the outer catch answers 500 with the error's message.
SubmitCloneEnd(ok) ==
    /\ sub.pc = "clone"
    /\ IF ok
       THEN /\ sub' = [sub EXCEPT !.pc = "upload"]
            /\ call' = "uploadSvc"
            /\ UStart
       ELSE /\ sub' = [sub EXCEPT !.pc = "done",
                                  !.res = [code |-> 500, message |-> "cloneError"]]
            /\ UNCHANGED <<call, store, localOut, usVars>>
    /\ UNCHANGED <<inVars, pool, prog, pipe, job, duVars, dlVars, orVars>>

\* A turn of the uploader. When uploadDirectory resolves: publisher.lPush is
\* called and not awaited, and res.json({id, processingTimeMs}) answers. When
\* it rejects: the outer catch answers 500 with the error's message.
SubmitUpload ==
    /\ sub.pc \in {"upload", "done"}
    /\ call = "uploadSvc"
    /\ UploadSvcNext
    /\ IF sub.pc = "upload" /\ uInv'[DirRoot] = "ok"
       THEN sub' = [pc |-> "done", res |-> [code |-> 200, id |-> job], push |-> "pending"]
       ELSE IF sub.pc = "upload" /\ uInv'[DirRoot] = "err"
       THEN sub' = [sub EXCEPT !.pc = "done",
                               !.res = [code |-> 500, message |-> "uploadError"]]
       ELSE UNCHANGED sub
    /\ UNCHANGED <<inVars, pool, prog, pipe, call, job, duVars, dlVars, orVars>>

\* The broker answers the lPush: the id is at the head of 'build-queue', or
\* the promise rejects, which nothing handles.
SubmitPushSettle(ok) ==
    /\ sub.push = "pending"
    /\ sub' = [sub EXCEPT !.push = IF ok THEN "ok" ELSE "failed"]
    /\ queue' = IF ok THEN <<job>> \o queue ELSE queue
    /\ UNCHANGED <<inVars, pool, prog, pipe, call, job, store, localOut, usVars, duVars, dlVars,
                   status, pc, timer, iter, orphans>>

SubmitInit ==
    /\ tree \in Trees
    /\ fsize \in Sizes
    /\ pageSize = MaxFiles
    /\ call = "none"
    /\ job = JobId(1)
    /\ store = {}
    /\ localOut = {}
    /\ UploadSvcInit
    /\ DeployUpInit
    /\ DownloadInit
    /\ OrchOff
    /\ sub = [pc |-> "idle", res |-> <<>>, push |-> "none"]
    /\ PoolOff
    /\ ProgOff
    /\ PipeOff

SubmitNext ==
    \/ SubmitStart
    \/ \E ok \in BOOLEAN : SubmitCloneEnd(ok)
    \/ SubmitUpload
    \/ \E ok \in BOOLEAN : SubmitPushSettle(ok)

SpecSubmit == SubmitInit /\ [][SubmitNext]_vars

\* ------------------------- several Deploy Service processes on one queue
\* Each process runs main; what an iteration does between the pop and its end
\* is one step here.
PoolVarsOff == <<inVars, call, job, store, localOut, usVars, duVars, dlVars,
                 status, pc, timer, iter, orphans, sub, prog, pipe>>

\* The ids pushed so far: those on the queue and those popped.
PoolPushed == Range(queue) \cup UNION {pool[o].popped : o \in Orchestrators}

\* A submit pushes a fresh id: lPush adds at the head.
PoolPush ==
    /\ Cardinality(PoolPushed) < MaxPushes
    /\ queue' = <<JobId(Cardinality(PoolPushed) + 1)>> \o queue
    /\ UNCHANGED <<pool, PoolVarsOff>>

\* brPop of process o returns: the broker removes the tail element and hands
\* it to this client only.
PoolPopHead(o) ==
    /\ pool[o].pc = "pop"
    /\ queue # <<>>
    /\ pool' = [pool EXCEPT ![o] = [pc |-> "work", job |-> Head(queue),
                                    popped |-> @.popped \cup {Head(queue)}]]
    /\ queue' = Tail(queue)
    /\ UNCHANGED PoolVarsOff

PoolPeek(o) ==
    /\ pool[o].pc = "pop"
    /\ queue # <<>>
    /\ pool' = [pool EXCEPT ![o] = [pc |-> "work", job |-> queue[Len(queue)],
                                    popped |-> @.popped \cup {queue[Len(queue)]}]]
    /\ UNCHANGED <<queue, PoolVarsOff>>

PoolPop(o) ==
    /\ pool[o].pc = "pop"
    /\ queue # <<>>
    /\ pool' = [pool EXCEPT ![o] = [pc |-> "work", job |-> queue[Len(queue)],
                                    popped |-> @.popped \cup {queue[Len(queue)]}]]
    /\ queue' = SubSeq(queue, 1, Len(queue) - 1)
    /\ UNCHANGED PoolVarsOff

\* brPop of process o rejects: catch, pause.
PoolPopFail(o) ==
    /\ pool[o].pc = "pop"
    /\ pool' = [pool EXCEPT ![o].pc = "sleep"]
    /\ UNCHANGED <<queue, PoolVarsOff>>

\* The iteration of process o ends: complete (back at brPop), with an error
\* (catch, pause), or with the death of the process.
PoolIterationEnd(o, how) ==
    /\ pool[o].pc = "work"
    /\ pool' = [pool EXCEPT ![o].pc = how]
    /\ UNCHANGED <<queue, PoolVarsOff>>

\* The setTimeout of the catch block of process o fires.
PoolTimer(o) ==
    /\ pool[o].pc = "sleep"
    /\ pool' = [pool EXCEPT ![o].pc = "pop"]
    /\ UNCHANGED <<queue, PoolVarsOff>>

PoolInit ==
    /\ tree = MkTree(<<0>>, TRUE)
    /\ fsize \in Sizes
    /\ pageSize = SmallPage
    /\ call = "none"
    /\ job = <<>>
    /\ store = {}
    /\ localOut = {}
    /\ UploadSvcInit
    /\ DeployUpInit
    /\ DownloadInit
    /\ OrchOff
    /\ SubOff
    /\ pool = [o \in Orchestrators |-> [pc |-> "pop", job |-> <<>>, popped |-> {}]]
    /\ ProgOff
    /\ PipeOff

PoolNext ==
    \/ PoolPush
    \/ \E o \in Orchestrators : PoolPop(o)
    \/ \E o \in Orchestrators : PoolPopFail(o)
    \/ \E o \in Orchestrators, how \in {"pop", "sleep", "crashed"} : PoolIterationEnd(o, how)
    \/ \E o \in Orchestrators : PoolTimer(o)

SpecPool == PoolInit /\ [][PoolNext]_vars

\* The broker serves a blocked brPop when the list has an element; the timer
\* of the pause fires.
FairSpecPool ==
    /\ SpecPool
    /\ \A o \in Orchestrators : SF_vars(PoolPop(o)) /\ WF_vars(PoolTimer(o))

\* --------------------------------------------------- the progress reports
\* One statistics record (this.stats of an uploader or downloader object), the
\* clock its methods read, and the progress lines logged from it. The three
\* logProgress methods differ in the text they log only.
ProgVarsOff == <<inVars, call, job, store, localOut, usVars, duVars, dlVars,
                 queue, status, pc, timer, iter, orphans, sub, pool, pipe>>

logProgressAlways(st) ==
    [st EXCEPT !.logged = Append(@, [at |-> st.now, since |-> st.lastLogTime,
                                     files |-> st.filesDone]),
               !.lastLogTime = st.now]

\* logProgress(): if (now - this.stats.lastLogTime >= this.logIntervalMs)
\* { log the progress; this.stats.lastLogTime = now }
logProgress(st) ==
    IF st.now - st.lastLogTime >= logIntervalMs
    THEN [st EXCEPT !.logged = Append(@, [at |-> st.now, since |-> st.lastLogTime,
                                          files |-> st.filesDone]),
                    !.lastLogTime = st.now]
    ELSE st

\* Time passes.
LogClock ==
    /\ prog.now + LogTickMs <= MaxLogClock
    /\ prog' = [prog EXCEPT !.now = @ + LogTickMs]
    /\ UNCHANGED <<queue, ProgVarsOff>>

\* uploadDirectory / downloadFromS3 begins: this.stats = {..., startTime:
\* Date.now(), lastLogTime: Date.now()}.
LogReset ==
    /\ prog' = [prog EXCEPT !.startTime = prog.now, !.lastLogTime = prog.now,
                            !.filesDone = 0, !.lastReset = prog.now]
    /\ UNCHANGED <<queue, ProgVarsOff>>

\* uploadFile / downloadFile completes: the counters are incremented and
\* logProgress() is called.
LogFileDone ==
    /\ Len(prog.logged) + prog.filesDone < MaxCompletions
    /\ prog' = logProgress([prog EXCEPT !.filesDone = @ + 1])
    /\ UNCHANGED <<queue, ProgVarsOff>>

\* A fresh object: the field initialisers put 0 in startTime and lastLogTime;
\* Date.now() is far from 0.
ProgInit ==
    /\ tree = MkTree(<<0>>, TRUE)
    /\ fsize \in Sizes
    /\ pageSize = SmallPage
    /\ call = "none"
    /\ job = <<>>
    /\ store = {}
    /\ localOut = {}
    /\ UploadSvcInit
    /\ DeployUpInit
    /\ DownloadInit
    /\ OrchOff
    /\ SubOff
    /\ PoolOff
    /\ prog = [now |-> logIntervalMs, startTime |-> 0, lastLogTime |-> 0, filesDone |-> 0,
               lastReset |-> -1, logged |-> <<>>]
    /\ PipeOff

ProgNext ==
    \/ LogClock
    \/ LogReset
    \/ LogFileDone

SpecProgress == ProgInit /\ [][ProgNext]_vars

\* ------------------------------- submissions and Deploy Service processes
\* uploadController for several requests and main in several processes, each
\* sync call being one step from its start to its end. Submission j gets the
\* fresh id JobId(j).
PipeVarsOff == <<inVars, call, job, store, localOut, usVars, duVars, dlVars,
                 status, pc, timer, iter, orphans, sub, prog>>

PipeSubmitPushFirst(j) ==
    /\ pipe.up[j] = "none"
    /\ \A i \in 1..(j - 1) : pipe.up[i] # "none"
    /\ pipe' = [pipe EXCEPT !.up[j] = "upload"]
    /\ queue' = <<JobId(j)>> \o queue
    /\ UNCHANGED <<pool, PipeVarsOff>>

\* uploadController: uuidv4(), clone, and s3Uploader.uploadDirectory(absolutePath, id)
\* is called.
PipeSubmit(j) ==
    /\ pipe.up[j] = "none"
    /\ \A i \in 1..(j - 1) : pipe.up[i] # "none"
    /\ pipe' = [pipe EXCEPT !.up[j] = "upload"]
    /\ UNCHANGED <<queue, pool, PipeVarsOff>>

\* await s3Uploader.uploadDirectory settles: lPush of the id (which may fail)
\* and the response, or the catch block.
PipeUploadEnd(j, ok, pushed) ==
    /\ pipe.up[j] = "upload"
    /\ pipe' = [pipe EXCEPT !.up[j] = IF ok THEN "ok" ELSE "err",
                            !.rejected = IF ok THEN @ ELSE @ \cup {<<JobId(j), "upload">>}]
    /\ queue' = IF ok /\ pushed THEN <<JobId(j)>> \o queue ELSE queue
    /\ UNCHANGED <<pool, PipeVarsOff>>

\* The end of the iteration of process o: back at brPop, or in the catch block.
PipeIterationEnd(o, how, dir) ==
    /\ pool' = [pool EXCEPT ![o].pc = how]
    /\ pipe' = [pipe EXCEPT !.stage[o] = "download",
                            !.rejected = IF dir # "none" THEN @ \cup {<<pool[o].job, dir>>}
                                         ELSE @]

\* await downloadS3Folder(res.element) settles.
PipeDownloadEnd(o, ok) ==
    /\ pool[o].pc = "work"
    /\ pipe.stage[o] = "download"
    /\ IF ok
       THEN pipe' = [pipe EXCEPT !.stage[o] = "build"] /\ UNCHANGED pool
       ELSE PipeIterationEnd(o, "sleep", "download")
    /\ UNCHANGED <<queue, PipeVarsOff>>

\* buildProject up to uploadDistFolder: the directory is missing, the build
\* fails or makes no dist (rejected), or uploadDistFolder(id, deploymentId) is
\* called.
PipeBuildEnd(o, ok) ==
    /\ pool[o].pc = "work"
    /\ pipe.stage[o] = "build"
    /\ IF ok
       THEN pipe' = [pipe EXCEPT !.stage[o] = "publish"] /\ UNCHANGED pool
       ELSE PipeIterationEnd(o, "sleep", "none")
    /\ UNCHANGED <<queue, PipeVarsOff>>

\* await uploadDistFolder settles: resolve("") or reject(error).
PipePublishEnd(o, ok) ==
    /\ pool[o].pc = "work"
    /\ pipe.stage[o] = "publish"
    /\ IF ok THEN PipeIterationEnd(o, "pop", "none")
             ELSE PipeIterationEnd(o, "sleep", "upload")
    /\ UNCHANGED <<queue, PipeVarsOff>>

\* The process ends during a download (uncaught read-stream error).
PipeCrash(o) ==
    /\ pool[o].pc = "work"
    /\ pipe.stage[o] = "download"
    /\ pool' = [pool EXCEPT ![o].pc = "crashed"]
    /\ UNCHANGED <<queue, pipe, PipeVarsOff>>

PipeInit ==
    /\ tree = MkTree(<<0>>, TRUE)
    /\ fsize \in Sizes
    /\ pageSize = SmallPage
    /\ call = "none"
    /\ job = <<>>
    /\ store = {}
    /\ localOut = {}
    /\ UploadSvcInit
    /\ DeployUpInit
    /\ DownloadInit
    /\ OrchOff
    /\ SubOff
    /\ pool = [o \in Orchestrators |-> [pc |-> "pop", job |-> <<>>, popped |-> {}]]
    /\ ProgOff
    /\ PipeOff

PipeNext ==
    \/ \E j \in 1..MaxPushes : PipeSubmit(j)
    \/ \E j \in 1..MaxPushes, ok \in BOOLEAN, pushed \in BOOLEAN : PipeUploadEnd(j, ok, pushed)
    \/ \E o \in Orchestrators : PoolPop(o)
    \/ \E o \in Orchestrators : PoolPopFail(o)
    \/ \E o \in Orchestrators, ok \in BOOLEAN : PipeDownloadEnd(o, ok)
    \/ \E o \in Orchestrators, ok \in BOOLEAN : PipeBuildEnd(o, ok)
    \/ \E o \in Orchestrators, ok \in BOOLEAN : PipePublishEnd(o, ok)
    \/ \E o \in Orchestrators : PipeCrash(o)
    \/ \E o \in Orchestrators : PoolTimer(o)

SpecPipe == PipeInit /\ [][PipeNext]_vars

\* --------------------------------------- Request Service: serveFileController
\* Key: `dist/${id}${filePath}`, id being host.split(".")[0] and filePath the
\* request path, "/" followed by the relative path of the file.
serveKey(id, f) == <<<<"dist">>, Slash, id, Slash>> \o RelPath(f)

\* serveFileController for host `${id}.<domain>` and the path of file f:
\* GetObject of the key; the body is sent, or the catch block answers 404.
serveFileController(id, f) ==
    IF \E o \in store : o.key = serveKey(id, f)
    THEN [code |-> 200, body |-> (CHOOSE o \in store : o.key = serveKey(id, f)).body]
    ELSE [code |-> 404, body |-> <<>>]

\* ------------------------------------------------------------------ claims
UploadSvcInFlight == Cardinality({f \in FileIds : uX[f] = "inflight"})
DeployUpInFlight  == Cardinality({f \in FileIds : dX[f] = "inflight"})
DownloadInFlight  == Cardinality({f \in FileIds : lX[f] = "inflight"})

\* C1: during one downloadFromS3 call at most concurrencyLimit (5) file
\* downloads are in flight, for any number of objects and listing pages.
C1_DownloadsInFlightBounded == DownloadInFlight <= concurrencyLimit

\* C2: during one top-level uploadDirectory call of the Upload Service at most
\* 5 file uploads are in flight over the whole tree, nested directories
\* included.
C2_UploadSvcInFlightBoundedGlobally == UploadSvcInFlight <= concurrencyLimit

\* C3: during one uploadDirectory call of the Deploy Service at most 5 file
\* uploads are in flight, also after an upload of the uploadQueue has rejected.
C3_DeployUploadsInFlightBounded == DeployUpInFlight <= concurrencyLimit

\* The Status Record of job id, if there is one.
StatusOf(id) == {r \in status : r.id = id}

\* The uploader publishing dist for the current job has called uploadFile for f.
PublishStarted(f) == call = "deployUp" /\ dX[f] # "none"

\* C4: when an iteration has ended because dist was missing after a build
\* that exited 0, or because the publish upload failed, there is no Status
\* Record for its job.
C4_StatusOnlyAfterPublish ==
    iter.result \in {"noDist", "publishFailed"} => StatusOf(iter.job) = {}

C6_BuildFailureReturnsToPop ==
    /\ [](iter.result = "buildFailed" =>
            /\ StatusOf(iter.job) = {}
            /\ \A f \in FileIds : ~PublishStarted(f)
            /\ \A o \in orphans : ~(o.kind = "upload" /\ o.job = iter.job))
    /\ [][(pc = "sleep" /\ iter.result = "buildFailed") =>
            /\ pc' \in {"sleep", "pop"}
            /\ pc' = "pop" => timer = 0]_vars
    /\ (pc = "sleep" /\ iter.result = "buildFailed") ~> (pc = "pop")

\* C7: in an upload sync (Upload Service and Deploy Service), once a file
\* upload has failed no new file upload is started: in no step does a file
\* start uploading when some upload has failed by the end of that step (within
\* a step, starts follow the settlement).
C7_NoUploadStartedAfterFailure ==
    [][/\ (\E g \in FileIds : uX'[g] = "fail")
          => \A f \in FileIds : uX[f] = "none" => uX'[f] = "none"
       /\ (\E g \in FileIds : dX'[g] = "fail")
          => \A f \in FileIds : dX[f] = "none" => dX'[f] = "none"]_vars

\* C8: in downloadFromS3, once a file download has failed no new file download
\* is started, objects of later listing pages included.
C8_NoDownloadStartedAfterFailure ==
    [][(\E g \in FileIds : lX[g] = "fail")
          => \A f \in FileIds : lX[f] = "none" => lX'[f] = "none"]_vars

\* C9: when a sync call settles (resolves or rejects), no file transfer it
\* started is still in flight.
C9_SettledCallHasNothingInFlight ==
    /\ uInv[DirRoot] \in {"ok", "err"} => UploadSvcInFlight = 0
    /\ dPhase \in {"ok", "err"} => DeployUpInFlight = 0
    /\ lPhase \in {"ok", "err"} => DownloadInFlight = 0

\* C10: a successful upload sync of any tree (files of size 0 included) to a
\* prefix, then a successful download sync from it into an empty directory,
\* yields the same relative paths with the same contents.
C10_RoundTripReproducesTree ==
    (call = "download" /\ lPhase = "ok") => OutputDir(job) = LocalTree

\* C11: a job whose iteration ended at the download step has no Status
\* Record, is not on the queue, and is not downloaded, built or published
\* again, in every later state.
C11_DownloadFailedJobHasNoStatus ==
    \A id \in iter.downloadFailed :
        /\ StatusOf(id) = {}
        /\ id \notin Range(queue)
        /\ job = id => pc \in {"sleep", "pop", "crashed"}

C11_Witness ==
    \E id \in iter.downloadFailed : job # id /\ StatusOf(job) # {}

\* C12: the lPush is issued only when uploadDirectory has resolved with every
\* file of the cloned tree uploaded; when the clone or the upload has failed,
\* nothing is pushed and the response is a 500 carrying that error's message.
C12_PushOnlyAfterUpload ==
    /\ sub.push # "none" =>
            /\ uInv[DirRoot] = "ok"
            /\ \A f \in TreeFiles : uX[f] = "ok"
            /\ SourceObjects(job) \subseteq store
    /\ (sub.pc = "done" /\ uInv[DirRoot] # "ok") =>
            /\ sub.push = "none"
            /\ job \notin Range(queue)
            /\ sub.res = [code |-> 500,
                          message |-> IF uInv[DirRoot] = "err" THEN "uploadError" ELSE "cloneError"]

C12_Witness ==
    /\ sub.pc = "done"
    /\ sub.res.code = 500
    /\ sub.res.message = "uploadError"
    /\ \E f \in TreeFiles : uX[f] = "ok"

\* C13: once a submit has answered with the success response and its lPush
\* has settled, the bucket holds under the id's prefix exactly one object per
\* cloned file, with that file's bytes, the id is on the queue exactly once,
\* and the push has succeeded.
C13_SuccessResponseMeansPushed ==
    (sub.pc = "done" /\ sub.res # <<>> /\ sub.res.code = 200 /\ sub.push # "pending") =>
        /\ Listed(<<job>>) = SourceObjects(job)
        /\ Cardinality(Listed(<<job>>)) = Cardinality(TreeFiles)
        /\ queue = <<job>>
        /\ sub.push = "ok"

\* C14: when the lPush of a submit has failed, the response of that submit is
\* a failure response.
C14_PushFailureSurfaces ==
    sub.push = "failed" => (sub.res # <<>> /\ sub.res.code = 500)

\* Work of the orchestrator for job id is in progress: its download sync, its
\* build or its publish is under way, or a transfer started for it is still
\* in flight.
InProgress(id) ==
    \/ job = id /\ pc \in {"download", "build", "publish"}
    \/ job = id /\ \E f \in FileIds : lX[f] = "inflight" \/ dX[f] = "inflight"
    \/ \E o \in orphans : o.job = id

\* C15: in no state is work for two different Job Identifiers in progress in
\* the orchestrator.
C15_OneJobAtATime ==
    Cardinality({j \in 1..MaxJobs : InProgress(JobId(j))}) <= 1

\* C16: while the build of a job runs, and from then on in its iteration, the
\* download sync of the job has resolved and every download it started has
\* completed: each file object under the job's prefix is in output/<id>.
C16_BuildAfterDownload ==
    (pc \in {"build", "publish"}) =>
        /\ lPhase = "ok"
        /\ \A f \in FileIds : lX[f] \in {"none", "ok"}
        /\ \A o \in Listed(<<job>>) :
              Len(o.body) > 0 =>
                /\ lX[ObjId(o.key)] = "ok"
                /\ [path |-> SubSeq(o.key, 3, Len(o.key)), body |-> o.body] \in OutputDir(job)

C16_Witness ==
    /\ pc = "build"
    /\ Cardinality({f \in FileIds : lX[f] = "ok"}) >= 2

\* C17: the orchestrator process never ends, and from the pause of the catch
\* block it gets back to the blocking pop.
C17_LoopNeverCrashes ==
    /\ [](pc # "crashed")
    /\ (pc = "sleep") ~> (pc = "pop")

\* Delivery part of C18: an id is handed to at most one process, no two
\* processes work on the same job, and an id handed out is off the queue.
C18_DeliveredAtMostOnce ==
    /\ \A o1, o2 \in Orchestrators :
          o1 # o2 => pool[o1].popped \cap pool[o2].popped = {}
    /\ \A o1, o2 \in Orchestrators :
          (o1 # o2 /\ pool[o1].pc = "work" /\ pool[o2].pc = "work")
              => pool[o1].job # pool[o2].job
    /\ \A o \in Orchestrators : Range(queue) \cap pool[o].popped = {}
    /\ Len(queue) = Cardinality(Range(queue))

C18_Witness ==
    /\ \A o \in Orchestrators : pool[o].pc = "work"
    /\ queue # <<>>

\* C18: both parts together: delivery to at most one process, always, and the
\* eventual pop of every id on the queue while some process keeps returning
\* to its pop.
C18_OneOrchestratorPerJob ==
    /\ []C18_DeliveredAtMostOnce
    /\ ([]<>(\E o \in Orchestrators : pool[o].pc = "pop"))
          => \A j \in 1..MaxPushes :
                (JobId(j) \in Range(queue)) ~> (JobId(j) \notin Range(queue))

\* The totals of the source of each direction: the leaf files of the tree, the
\* objects below the prefix.
TreeTotals ==
    [totalFiles |-> Cardinality(TreeFiles), totalBytes |-> SumSizes(fsize, Files)]

ListingTotals ==
    [totalFiles |-> Cardinality(Listed(downloadPrefix)),
     totalBytes |-> SumSizes([f \in FileIds |-> IF f \in Range(Objects) THEN ObjSize(f) ELSE 0],
                             Objects)]

Totals(st) == [totalFiles |-> st.totalFiles, totalBytes |-> st.totalBytes]

\* Upload part of C19: the statistics pass of the top-level call, pending in
\* this state, yields the totals of the whole tree; the pass of the Deploy
\* uploader, run by this step, leaves them in this.stats.
C19_UploadTotals ==
    [][/\ (uInv[DirRoot] = "stats" /\ uInv'[DirRoot] \notin {"stats", "err"})
            => Totals(calculateDirectoryStats(uStats, DirRoot)) = TreeTotals
       /\ (call = "none" /\ call' = "deployUp" /\ dPhase' # "err")
            => Totals(dStats') = TreeTotals]_vars

\* C19: at the end of the statistics pass of a sync call totalFiles is the
\* number of leaf files of the whole source and totalBytes the sum of their
\* sizes: the tree for the two uploaders, the listing (of any number of pages)
\* for the downloader.
C19_TotalsMatchSource ==
    [][/\ (uInv[DirRoot] = "stats" /\ uInv'[DirRoot] \notin {"stats", "err"})
            => Totals(calculateDirectoryStats(uStats, DirRoot)) = TreeTotals
       /\ (call = "none" /\ call' = "deployUp" /\ dPhase' # "err")
            => Totals(dStats') = TreeTotals
       /\ (lPhase = "stats" /\ lPhase' = "list")
            => Totals(lStats') = ListingTotals]_vars

\* Download part of C19 without the objects of size 0.
C19_DownloadTotalsNonEmpty ==
    [][(lPhase = "stats" /\ lPhase' = "list")
          => /\ lStats'.totalBytes = ListingTotals.totalBytes
             /\ lStats'.totalFiles =
                  Cardinality({o \in Listed(downloadPrefix) : Len(o.body) > 0})]_vars

\* Statistics st2 keep the totals of st1 and do not fall behind its counters
\* of completed files and bytes.
Finalized(st1, st2, files, bytes) ==
    /\ Totals(st2) = Totals(st1)
    /\ st2[files] >= st1[files]
    /\ st2[bytes] >= st1[bytes]

\* C20 for the Deploy uploader and the downloader.
C20_DeployStatsFinalized ==
    [][/\ (call = "deployUp" /\ call' = call /\ \E f \in FileIds : dX[f] # "none")
            => Finalized(dStats, dStats', "filesUploaded", "bytesUploaded")
       /\ (call = "download" /\ call' = call /\ \E f \in FileIds : lX[f] # "none")
            => Finalized(lStats, lStats', "filesDownloaded", "bytesDownloaded")]_vars

\* C20: within one top-level sync call, once a file transfer has been
\* admitted, totalFiles and totalBytes do not change any more and the counters
\* of completed files and bytes are not reset.
C20_StatsFinalizedBeforeTransfer ==
    [][/\ (call = "uploadSvc" /\ call' = call /\ \E f \in FileIds : uX[f] # "none")
            => Finalized(uStats, uStats', "filesUploaded", "bytesUploaded")
       /\ (call = "deployUp" /\ call' = call /\ \E f \in FileIds : dX[f] # "none")
            => Finalized(dStats, dStats', "filesUploaded", "bytesUploaded")
       /\ (call = "download" /\ call' = call /\ \E f \in FileIds : lX[f] # "none")
            => Finalized(lStats, lStats', "filesDownloaded", "bytesDownloaded")]_vars

\* C21: two progress reports of one statistics record are at least
\* logIntervalMs apart, a report is logged only when that long has passed since
\* the time in lastLogTime (the last report or the reset), and lastLogTime then
\* holds the time of the report.
C21_OneReportPerInterval ==
    /\ \A i \in 1..Len(prog.logged) :
          /\ prog.logged[i].at - prog.logged[i].since >= logIntervalMs
          /\ i > 1 => /\ prog.logged[i].at - prog.logged[i - 1].at >= logIntervalMs
                      /\ prog.logged[i].since >= prog.logged[i - 1].at
    /\ prog.logged # <<>> =>
          prog.lastLogTime = IF prog.lastReset > prog.logged[Len(prog.logged)].at
                             THEN prog.lastReset
                             ELSE prog.logged[Len(prog.logged)].at

C21_Witness ==
    /\ Len(prog.logged) >= 2
    /\ prog.filesDone >= 3
    /\ prog.lastReset >= 0
    /\ prog.now - prog.logged[Len(prog.logged)].at < logIntervalMs

\* C22: when a download of the job being downloaded fails (headObject, the
\* read stream of getObject, the local write), the call of downloadFromS3 is
\* rejected then or stays pending with the process alive, and a failed
\* download leads to the catch block of main.
C22_DownloadFailureReachesCatch ==
    /\ [][(pc = "download" /\ \E f \in FileIds :
                                lX[f] = "inflight" /\ lX'[f] \in {"fail", "aborted"})
            => (pc' = "sleep" \/ (pc' = "download" /\ lPhase' \in {"list", "join"}))]_vars
    /\ (pc = "download" /\ \E f \in FileIds : lX[f] = "fail") ~> (pc = "sleep")

\* C23: once an upload of a file has failed, the uploadDirectory call it
\* belongs to is not resolved, and it is rejected by the time nothing of the
\* call is left running, whatever has become of the other entries.
C23_FailedUploadRejectsCall ==
    /\ (call = "uploadSvc" /\ \E f \in FileIds : uX[f] = "fail")
          => /\ uInv[DirRoot] # "ok"
             /\ (UploadSvcInFlight = 0 /\ \A d \in DirIds : uInv[d] # "stats")
                    => uInv[DirRoot] = "err"
    /\ (call = "deployUp" /\ \E f \in FileIds : dX[f] = "fail")
          => /\ dPhase # "ok"
             /\ DeployUpInFlight = 0 => dPhase = "err"

C23_Witness ==
    /\ call = "deployUp"
    /\ dPhase = "err"
    /\ DeployUpInFlight = 0
    /\ \E f \in FileIds : dX[f] = "fail" /\ f # dNext - 1
    /\ Cardinality({g \in FileIds : dX[g] = "ok"}) = MaxFiles - 1

\* The sync calls on id in direction dir that are active, and those that were
\* rejected (whose transfers may still be in flight).
ActiveCalls(id, dir) ==
    {<<"submit", j>> : j \in {i \in 1..MaxPushes :
                                dir = "upload" /\ JobId(i) = id /\ pipe.up[i] = "upload"}}
        \cup {<<"orchestrator", o>> : o \in {q \in Orchestrators :
                  /\ pool[q].pc = "work"
                  /\ pool[q].job = id
                  /\ pipe.stage[q] = (IF dir = "upload" THEN "publish" ELSE "download")}}
        \cup {<<"rejected", c>> : c \in {r \in pipe.rejected : r = <<id, dir>>}}

\* C24: of the sync calls of the Submission Handler and of all orchestrator
\* processes, at most one per Job Identifier and direction is active at any
\* time, a rejected call that may have left transfers in flight included.
C24_OneCallPerJobAndDirection ==
    \A j \in 1..MaxPushes, dir \in {"upload", "download"} :
        Cardinality(ActiveCalls(JobId(j), dir)) <= 1

C24_Witness ==
    /\ \E o \in Orchestrators : pool[o].pc = "work" /\ pipe.stage[o] = "publish"
    /\ \E o \in Orchestrators : pool[o].pc = "work" /\ pipe.stage[o] = "download"
    /\ \E j \in 1..MaxPushes : pipe.up[j] = "upload"

\* C25: every change of the status hash is the write of "Deployed" for the job
\* being built, the write finds no record of that job (one write per job), and
\* no other label is ever stored.
C25_OnlyDeployedWrittenOnce ==
    /\ [](\A r \in status : r.label = "Deployed")
    /\ [][(status' # status =>
               (pc = "build" /\ status' = status \cup {[id |-> job, label |-> "Deployed"]}))
           /\ ((pc = "build" /\ {r \in status' : r.id = job} # {}) => StatusOf(job) = {})]_vars

C25_Witness ==
    /\ Cardinality(status) = MaxJobs
    /\ iter.result = "publishFailed"

\* C26: every object in the bucket has the key <jobId>/<relativePath> or
\* deployments/<jobId>/<deploymentId>/<relativePath>, relativePath being the
\* path of a file of the tree relative to the synced root.
C26_KeyLayout ==
    \A o \in store :
        LET f == ObjId(o.key)
        IN  /\ f \in TreeFiles
            /\ \/ o.key = <<job, Slash>> \o RelPath(f)
               \/ o.key = <<<<"deployments">>, Slash, job, Slash, DeploymentId, Slash>> \o RelPath(f)

C26_Witness ==
    /\ \E o \in store : o.key[1] = job /\ Len(o.key) = 2 * MaxDepth + 1
    /\ \E o \in store : o.key[1] = job /\ Len(o.key) = 3

\* The transfer of every file before position k of the sequence fs has been
\* started if the transfer of fs[k] has.
StartedInOrder(X, fs) ==
    \A k \in 1..Len(fs) : X[fs[k]] # "none" => \A i \in 1..(k - 1) : X[fs[i]] # "none"

\* The leaf files that are entries of directory d, in readdir order.
FilesOf(d) ==
    LET es == SelectSeq(tree[d], LAMBDA e : ~e.isDir)
    IN  [k \in 1..Len(es) |-> es[k].id]

\* C27 for the Deploy uploader and the downloader: transfers are started in
\* the order of the walk, and of the listing.
C27_DeployAdmittedInOrder ==
    /\ call = "deployUp" => StartedInOrder(dX, Files)
    /\ call = "download" => StartedInOrder(lX, SelectSeq(Objects, IsFileObject))

\* C27: within one sync call the transfers are started in traversal order: a
\* file's transfer has started only if the transfer of every file before it has
\* (for the Upload Service: of every file before it in its directory).
C27_AdmittedInTraversalOrder ==
    /\ call = "uploadSvc" => \A d \in DirIds : StartedInOrder(uX, FilesOf(d))
    /\ call = "deployUp" => StartedInOrder(dX, Files)
    /\ call = "download" => StartedInOrder(lX, SelectSeq(Objects, IsFileObject))

\* C28 for the Deploy uploader: while the walk waits with files left, the pool
\* is full, and the settlement of any upload of the queue lets it go on.
C28_DeployWaitsOnlyWhenFull ==
    (call = "deployUp" /\ dPhase = "walk") =>
        /\ DeployUpInFlight >= concurrencyLimit
        /\ dNext <= Len(Files)

\* C28: an entry not yet admitted waits for the completion of one particular
\* transfer in flight only while the pool is full: with fewer than
\* concurrencyLimit transfers in flight no entry is left waiting behind one of
\* them.
C28_NextEntryAdmittedOnAnyCompletion ==
    /\ (call = "uploadSvc" /\ \A f \in FileIds : uX[f] # "fail") =>
          \A d \in DirIds, i \in Lanes :
              (/\ uInv[d] = "run"
               /\ uLane[d][i].st = "file"
               /\ uLane[d][i].idx + concurrencyLimit <= Len(tree[d]))
                  => UploadSvcInFlight >= concurrencyLimit
    /\ (call = "deployUp" /\ dPhase = "walk") =>
          /\ DeployUpInFlight >= concurrencyLimit
          /\ dNext <= Len(Files)

IterationErrors == {"popFailed", "downloadFailed", "buildFailed", "noDist", "publishFailed"}

\* C29: an iteration that ends in an error starts the pause of retryDelayMs,
\* the pause is left only when all of it has elapsed, and for the pop alone
\* while the process lives; an iteration that completes is at the pop in the
\* same step, and only a completed iteration gets to the pop without the pause.
C29_PauseOnlyAfterError ==
    [][/\ (iter'.result # iter.result /\ iter'.result \in IterationErrors)
            => (pc' = "sleep" /\ timer' = retryDelayMs)
       /\ (pc = "sleep" /\ pc' # "sleep") => (pc' \in {"pop", "crashed"} /\ (pc' = "pop" => timer = 0))
       /\ (timer' # timer /\ pc = "sleep")
            => (pc' = "sleep" /\ timer' < timer /\ timer - timer' <= TickMs)
       /\ (iter'.result # iter.result /\ iter'.result = "complete") => pc' = "pop"
       /\ (pc \notin {"pop", "sleep"} /\ pc' = "pop") => iter'.result = "complete"]_vars

C29_Witness ==
    /\ pc = "download"
    /\ iter.downloadFailed # {}
    /\ StatusOf(JobId(MaxJobs)) = {}
    /\ timer = 0

\* C30: a process receives ids in the order they were pushed: the id it pops,
\* and starts the download of, was pushed after every id it has popped before
\* (submission n pushes JobId(n)).
C30_PoppedInPushOrder ==
    [][\A o \in Orchestrators :
          pool'[o].popped # pool[o].popped =>
              /\ pool'[o].pc = "work"
              /\ pool'[o].popped = pool[o].popped \cup {pool'[o].job}
              /\ \A id \in pool[o].popped : id[2] < pool'[o].job[2]]_vars

C30_Witness ==
    \E o \in Orchestrators :
        /\ Cardinality(pool[o].popped) = 2
        /\ JobId(2) \notin pool[o].popped
        /\ pool[o].pc = "work"

\* The downloads pushed to downloadPromises, batch after batch.
RECURSIVE BatchFiles(_)
BatchFiles(ps) == IF ps = <<>> THEN <<>> ELSE Head(ps) \o BatchFiles(Tail(ps))

\* The objects of the pages before page k that are not skipped (Size > 0).
FileObjectsBefore(k) ==
    LET n == IF (k - 1) * pageSize < Len(Objects) THEN (k - 1) * pageSize ELSE Len(Objects)
    IN  SelectSeq(SubSeq(Objects, 1, n), IsFileObject)

ObjSizes == [f \in FileIds |-> IF f \in Range(Objects) THEN ObjSize(f) ELSE 0]

\* C31: in downloadFromS3 each of the two listing loops goes from page to page
\* up to the page that is not truncated and then ends; when the statistics
\* loop waits for page k it has counted the objects of the pages before k once
\* each, when the transfer loop waits for page k it has called downloadFile once
\* for each of them, and after the last page for each object of the listing
\* (objects of size 0 are looked at and skipped by both).
C31_ListingLoopsVisitOnceAndEnd ==
    /\ [](call = "download" =>
            /\ lPage \in 1..NumPages
            /\ lPhase = "stats" =>
                  /\ lStats.totalFiles = Len(FileObjectsBefore(lPage))
                  /\ lStats.totalBytes = SumSizes(ObjSizes, FileObjectsBefore(lPage))
            /\ lPhase = "list" => BatchFiles(downloadPromises) = FileObjectsBefore(lPage)
            /\ lPhase \in {"join", "ok"} =>
                  BatchFiles(downloadPromises) = SelectSeq(Objects, IsFileObject))
    /\ [][(call = "download" /\ lPhase \in {"stats", "list"} /\ lPhase' = lPhase
             /\ <<lPage, Totals(lStats), downloadPromises>>' # <<lPage, Totals(lStats), downloadPromises>>)
            => lPage' = lPage + 1]_vars

C31_Witness ==
    /\ call = "download"
    /\ lPhase = "ok"
    /\ NumPages = 3
    /\ Len(downloadPromises) = 3

\* C32: once an iteration has completed (download, build and publish
\* succeeded), the content server asked for a published file of that job reads
\* a key the publish upload wrote, and so answers with the file.
C32_ServedKeyIsPublishedKey ==
    iter.result = "complete" =>
        \A f \in TreeFiles :
            /\ serveKey(iter.job, f) \in {s3Key(distPrefix, g) : g \in TreeFiles}
            /\ serveFileController(iter.job, f) = [code |-> 200, body |-> Bytes(f)]

\* The chains of the Upload Service that are awaiting the upload of file f.
ChainsOn(f) ==
    {c \in DirIds \X Lanes :
        /\ uLane[c[1]][c[2]].st = "file"
        /\ tree[c[1]][uLane[c[1]][c[2]].idx].id = f}

\* C33: every leaf file of the source tree is uploaded exactly once by a
\* successful upload sync.  An upload is started only for a leaf file that had
\* none before (no duplicate), one chain at most awaits the upload of a file,
\* the Deploy uploader's queue holds a file at most once, and when the call
\* has resolved every leaf file of the tree has been uploaded (none omitted)
\* and nothing else has.
C33_EveryLeafUploadedOnce ==
    /\ [](/\ \A f \in FileIds :
              /\ Cardinality(ChainsOn(f)) = (IF uX[f] = "inflight" THEN 1 ELSE 0)
              /\ Cardinality({k \in 1..Len(uploadQueue) : uploadQueue[k] = f}) <= 1
              /\ dX[f] = "inflight" => f \in Range(uploadQueue)
              /\ f \notin TreeFiles => uX[f] = "none" /\ dX[f] = "none"
          /\ (call = "uploadSvc" /\ uInv[DirRoot] = "ok") =>
                /\ \A f \in TreeFiles : uX[f] = "ok"
                /\ store = {[key |-> entryS3Key(s3PrefixOf(job, DirOf(f)), FileName(f)),
                             body |-> Bytes(f)] : f \in TreeFiles}
          /\ (call = "deployUp" /\ dPhase = "ok") =>
                /\ \A f \in TreeFiles : dX[f] = "ok"
                /\ store = {[key |-> s3Key(distPrefix, f), body |-> Bytes(f)] : f \in TreeFiles})
    /\ [][\A f \in FileIds :
             /\ (uX'[f] = "inflight" /\ uX[f] # "inflight") => (f \in TreeFiles /\ uX[f] = "none")
             /\ (dX'[f] = "inflight" /\ dX[f] # "inflight") => (f \in TreeFiles /\ dX[f] = "none")
             /\ uX[f] \in {"ok", "fail"} => (call' = call => uX'[f] = uX[f])
             /\ dX[f] \in {"ok", "fail"} => dX'[f] = dX[f]]_vars

\* Both uploaders have resolved on a tree with more entries in a directory
\* than chains, and a nested directory.
C33_Witness ==
    /\ Len(tree[DirRoot]) > concurrencyLimit
    /\ \E k \in 1..Len(tree[DirRoot]) : tree[DirRoot][k].isDir
    /\ call = "uploadSvc" /\ uInv[DirRoot] = "ok"

C33_WitnessDeploy ==
    /\ Len(tree[DirRoot]) > concurrencyLimit
    /\ call = "deployUp" /\ dPhase = "ok" /\ Cardinality(TreeFiles) = MaxFiles

\* The completion counters of a statistics record do not exceed its totals.
WithinTotals(st, files, bytes) ==
    /\ st[files] <= st.totalFiles
    /\ st[bytes] <= st.totalBytes

\* C34 for the Deploy uploader and the downloader: after the statistics pass
\* the completed files and bytes never exceed the totals.
C34_DeployWithinTotals ==
    /\ (call = "deployUp" /\ dPhase \in {"walk", "join", "ok", "err"}) =>
            WithinTotals(dStats, "filesUploaded", "bytesUploaded")
    /\ (call = "download" /\ lPhase \in {"list", "join", "ok", "err"}) =>
            WithinTotals(lStats, "filesDownloaded", "bytesDownloaded")

\* C34: in every state of a sync call after its statistics pass (no
\* statistics pass of the call, nested ones included, is pending) the
\* completed files and bytes do not exceed the totals.
C34_ProgressWithinTotals ==
    /\ (call = "uploadSvc" /\ \A d \in DirIds : uInv[d] # "stats") =>
            WithinTotals(uStats, "filesUploaded", "bytesUploaded")
    /\ C34_DeployWithinTotals

\* The completion counters of a statistics record equal its totals.
ReachedTotals(st, files, bytes) ==
    /\ st[files] = st.totalFiles
    /\ st[bytes] = st.totalBytes

\* C35 for the Deploy uploader and the downloader: when the call has resolved,
\* the counters of completed files and bytes equal the totals.
C35_DeployCountersReachTotals ==
    /\ (call = "deployUp" /\ dPhase = "ok") =>
            ReachedTotals(dStats, "filesUploaded", "bytesUploaded")
    /\ (call = "download" /\ lPhase = "ok") =>
            ReachedTotals(lStats, "filesDownloaded", "bytesDownloaded")

\* C35: when a top-level sync call has resolved successfully, the completed
\* files equal totalFiles and the completed bytes equal totalBytes.
C35_CountersReachTotals ==
    /\ (call = "uploadSvc" /\ uInv[DirRoot] = "ok") =>
            ReachedTotals(uStats, "filesUploaded", "bytesUploaded")
    /\ C35_DeployCountersReachTotals

\* The transfers that complete successfully, and those that fail, in a step.
Completing(X, Y) == {f \in FileIds : X[f] = "inflight" /\ Y[f] = "ok"}
Failing(X, Y)    == {f \in FileIds : X[f] = "inflight" /\ Y[f] = "fail"}

\* st2 is st1 with one completion counted for each file of fs (at most one),
\* sz giving the sizes.
CountedOnly(st1, st2, files, bytes, fs, sz) ==
    /\ st2[files] = st1[files] + Cardinality(fs)
    /\ st2[bytes] = st1[bytes] + (IF fs = {} THEN 0 ELSE sz[CHOOSE f \in fs : TRUE])

\* The step starts a nested uploadDirectory invocation of the Upload Service,
\* which begins with a fresh statistics record.
NestedReset ==
    /\ \E d \in DirIds : uInv[d] # "stats" /\ uInv'[d] = "stats"
    /\ uStats' = ZeroStats

\* C36: within a sync call one transfer settles per step; the counters of
\* completed files and bytes grow by 1 and by the size of the file in a step
\* in which a transfer completes successfully, and in no other step: a step
\* in which a transfer fails leaves them as they are.  (The Upload Service
\* starts from a zeroed record when the step goes on to a subdirectory.)
C36_FailedTransferNotCounted ==
    [][call' = call =>
        /\ Cardinality(Completing(uX, uX') \cup Failing(uX, uX')) <= 1
        /\ Cardinality(Completing(dX, dX') \cup Failing(dX, dX')) <= 1
        /\ Cardinality(Completing(lX, lX') \cup Failing(lX, lX')) <= 1
        /\ NestedReset \/ CountedOnly(uStats, uStats', "filesUploaded", "bytesUploaded",
                                      Completing(uX, uX'), fsize)
        /\ CountedOnly(dStats, dStats', "filesUploaded", "bytesUploaded",
                       Completing(dX, dX'), fsize)
        /\ CountedOnly(lStats, lStats', "filesDownloaded", "bytesDownloaded",
                       Completing(lX, lX'), [f \in FileIds |-> Len(Bytes(f))])]_vars

\* An upload of the Deploy uploader has failed after others had completed, and
\* the counters hold the completed ones only.
C36_Witness ==
    /\ call = "deployUp"
    /\ \E f \in FileIds : dX[f] = "fail"
    /\ dStats.filesUploaded = Cardinality({f \in FileIds : dX[f] = "ok"})
    /\ dStats.filesUploaded >= 2

C36_WitnessUploadSvc ==
    /\ call = "uploadSvc"
    /\ \E f \in FileIds : uX[f] = "fail"
    /\ uStats.filesUploaded >= 2

C36_WitnessDownload ==
    /\ call = "download"
    /\ \E f \in FileIds : lX[f] = "fail"
    /\ lStats.filesDownloaded >= 2
====
